---------------------------- MODULE Spec2Model ----------------------------
(***************************************************************************)
(* Model of whipper/image/table.py: Index, Track and Table, the table of   *)
(* contents of an audio CD.                                                *)
(*                                                                         *)
(* Track and Index are Python objects, so the model keeps a heap of each   *)
(* (trackHeap, indexHeap) and tables hold references into it: sharing of   *)
(* objects between two tables is then something a check can find.          *)
(*                                                                         *)
(* An optional Python value is a tuple: None is << >> and the value v is   *)
(* << v >>.  A raised exception is the name of its class, "" when the call *)
(* returns.                                                                *)
(***************************************************************************)
EXTENDS Integers, Sequences, FiniteSets, TLC

VARIABLES
    table,      \* "a", "b" -> [tracks: the list of Track references, leadout, mbdiscid]
    trackHeap,  \* the Track objects:  reference -> [number, audio, session, indexes]
    indexHeap,  \* the Index objects:  reference -> [number, absolute, path, relative, counter]
    last,       \* the call made last: its name, receiver, arguments and outcome
    pre,        \* what both tables held when that call began
    steps       \* how many calls that write a table were made

vars == <<table, trackHeap, indexHeap, last, pre, steps>>

---------------------------------------------------------------------------
(* Bounds of the model *)

\* calls that write a table, in one behaviour
MaxSteps == 2
\* tracks a table may reach by merging
MaxTracks == 3
\* tracks of the longest disc whose ids are computed
MaxDiscTracks == 20

TableNames == {"a", "b"}

\* index numbers used: 0 (the pre-gap), 1, and 8, which a Python 2 dict of
\* small ints holds in a slot before that of 1
IndexNumbers == {0, 1, 8}

---------------------------------------------------------------------------
(* Python values *)

None == << >>

Some(v) == << v >>

IsNone(x) == x = None

Val(x) == x[1]

\* Python 2 orders None before every int: a < b
PyLess(a, b) ==
    IF IsNone(b) THEN FALSE
    ELSE IF IsNone(a) THEN TRUE
    ELSE Val(a) < Val(b)

\* a <= b
PyLessEq(a, b) == a = b \/ PyLess(a, b)

\* a > b
PyGreater(a, b) == PyLess(b, a)

\* the result of a call: it returned val, or raised exc
Return(v) == [exc |-> "", val |-> v]

Raise(e) == [exc |-> e, val |-> None]

---------------------------------------------------------------------------
(* dict: Track.indexes maps index number -> Index.  CPython 2 keeps an int *)
(* key k of a dict of at most 5 entries in slot k mod 8, and keys() lists  *)
(* the slots in order.  The model only builds key sets whose slots differ. *)

HashSlot(k) == k % 8

SlotsDiffer(ks) == \A j, k \in ks : j # k => HashSlot(j) # HashSlot(k)

KeySets == {ks \in SUBSET IndexNumbers : SlotsDiffer(ks)}

\* indexes.keys()
Keys(indexes) ==
    LET d == DOMAIN indexes
        n == Cardinality(d)
    IN  CHOOSE s \in [1..n -> d] :
            \A i, j \in 1..n : i < j => HashSlot(s[i]) < HashSlot(s[j])

\* indexes.keys() followed by sort()
SortedKeys(indexes) ==
    LET d == DOMAIN indexes
        n == Cardinality(d)
    IN  CHOOSE s \in [1..n -> d] : \A i, j \in 1..n : i < j => s[i] < s[j]

\* list.index(x) of an x the list holds
Position(s, x) == CHOOSE p \in 1..Len(s) : s[p] = x

---------------------------------------------------------------------------
(* Views: the objects a table reaches, read out of the heap *)

\* the Track a reference of table tb, position p (1-based), points at
TrackAtIn(tbl, th, tb, p) == th[tbl[tb].tracks[p]]

TrackAt(tb, p) == TrackAtIn(table, trackHeap, tb, p)

NTracks(tb) == Len(table[tb].tracks)

\* track.getIndex(number) of a present index
GetIndex(track, number) == indexHeap[track.indexes[number]]

TrackViewIn(th, ih, ref) ==
    LET t == th[ref]
    IN  [number |-> t.number, audio |-> t.audio, session |-> t.session,
         indexes |-> [k \in DOMAIN t.indexes |-> ih[t.indexes[k]]]]

TableViewIn(tbl, th, ih, tb) ==
    [tracks   |-> [p \in 1..Len(tbl[tb].tracks) |-> TrackViewIn(th, ih, tbl[tb].tracks[p])],
     leadout  |-> tbl[tb].leadout,
     mbdiscid |-> tbl[tb].mbdiscid]

TableView(tb) == TableViewIn(table, trackHeap, indexHeap, tb)

Snapshot == [tb \in TableNames |-> TableView(tb)]

\* the Track and Index objects a table reaches
TrackRefs(tb) == {table[tb].tracks[p] : p \in 1..NTracks(tb)}

IndexRefs(tb) ==
    UNION {{trackHeap[r].indexes[k] : k \in DOMAIN trackHeap[r].indexes} : r \in TrackRefs(tb)}

---------------------------------------------------------------------------
(* Table: offsets and lookups *)

\* as _getSessionGap, without the smaller gap of the sessions after the second
sessionGapOfSecond(session) == 11400

\* Table._getSessionGap(session)
_getSessionGap(session) == IF session > 2 THEN 6900 ELSE 11400

\* Table.getTrackStart(number), number in 1..len(tracks)
getTrackStart(tb, number) ==
    LET track == TrackAt(tb, number)
    IN  IF 1 \notin DOMAIN track.indexes THEN Raise("KeyError")
        ELSE Return(GetIndex(track, 1).absolute)

\* as getTrackEnd, without the gap taken off at a session border
getTrackEndIgnoringSessions(tb, number) ==
    IF IsNone(table[tb].leadout) THEN Raise("TypeError")
    ELSE IF number < NTracks(tb) THEN
        LET nextTrack == TrackAt(tb, number + 1)
        IN  IF 1 \notin DOMAIN nextTrack.indexes THEN Raise("KeyError")
            ELSE IF IsNone(GetIndex(nextTrack, 1).absolute) THEN Raise("TypeError")
            ELSE Return(Some(Val(GetIndex(nextTrack, 1).absolute) - 1))
    ELSE Return(Some(Val(table[tb].leadout) - 1))

\* Table.getTrackEnd(number), number in 1..len(tracks)
getTrackEnd(tb, number) ==
    IF IsNone(table[tb].leadout) THEN Raise("TypeError")
    ELSE IF number < NTracks(tb) THEN
        LET thisTrack == TrackAt(tb, number)
            nextTrack == TrackAt(tb, number + 1)
        IN  IF 1 \notin DOMAIN nextTrack.indexes THEN Raise("KeyError")
            ELSE IF IsNone(GetIndex(nextTrack, 1).absolute) THEN Raise("TypeError")
            ELSE LET end == Val(GetIndex(nextTrack, 1).absolute) - 1
                 IN  IF PyGreater(nextTrack.session, thisTrack.session)
                     THEN Return(Some(end - _getSessionGap(Val(nextTrack.session))))
                     ELSE Return(Some(end))
    ELSE Return(Some(Val(table[tb].leadout) - 1))

\* as getTrackLength, counting the frames between start and end
getTrackLengthExclusive(tb, number) ==
    LET end   == getTrackEnd(tb, number)
        start == getTrackStart(tb, number)
    IN  IF end.exc # "" THEN end
        ELSE IF start.exc # "" THEN start
        ELSE IF IsNone(start.val) THEN Raise("TypeError")
        ELSE Return(Some(Val(end.val) - Val(start.val)))

\* Table.getTrackLength(number)
getTrackLength(tb, number) ==
    LET end   == getTrackEnd(tb, number)
        start == getTrackStart(tb, number)
    IN  IF end.exc # "" THEN end
        ELSE IF start.exc # "" THEN start
        ELSE IF IsNone(start.val) THEN Raise("TypeError")
        ELSE Return(Some(Val(end.val) - Val(start.val) + 1))

\* Table.getAudioTracks()
getAudioTracks(tb) == Cardinality({p \in 1..NTracks(tb) : TrackAt(tb, p).audio})

\* Table.hasDataTracks()
hasDataTracks(tb) == \E p \in 1..NTracks(tb) : ~TrackAt(tb, p).audio

\* Table.hasTOC(); "not self.leadout" holds of None and of 0
hasTOC(tb) ==
    /\ ~IsNone(table[tb].leadout)
    /\ Val(table[tb].leadout) # 0
    /\ \A p \in 1..NTracks(tb) :
          /\ 1 \in DOMAIN TrackAt(tb, p).indexes
          /\ ~IsNone(GetIndex(TrackAt(tb, p), 1).absolute)

\* Track.getFirstIndex(): the number of the index, of a track that has one
getFirstIndex(track) == SortedKeys(track.indexes)[1]

\* Track.getLastIndex(): the number of the index, of a track that has one
getLastIndex(track) == SortedKeys(track.indexes)[Cardinality(DOMAIN track.indexes)]

\* Table.getNextTrackIndex(track, index) on the table whose track list is
\* refs: << the next track, its index >>, or << >> for IndexError (there is no
\* next track, or indexes[0] of a next track without indexes)
getNextTrackIndexIn(th, refs, track, index) ==
    LET indexes  == Keys(th[refs[track]].indexes)
        position == Position(indexes, index)
    IN  IF position + 1 <= Len(indexes) THEN <<track, indexes[position + 1]>>
        ELSE IF track + 1 > Len(refs) THEN << >>
        ELSE LET nextIndexes == Keys(th[refs[track + 1]].indexes)
             IN  IF Len(nextIndexes) = 0 THEN << >>
                 ELSE <<track + 1, nextIndexes[1]>>

getNextTrackIndex(tb, track, index) ==
    getNextTrackIndexIn(trackHeap, table[tb].tracks, track, index)

---------------------------------------------------------------------------
(* Table: the methods that modify the table.  Each walk is the method's    *)
(* while loop, on the Index heap ih it has written so far; refs is the     *)
(* receiver's track list.  A walk ends in [ih, exc].                       *)

\* the reference of index i of the track at position t
IndexRef(refs, t, i) == trackHeap[refs[t]].indexes[i]

RECURSIVE clearFilesWalk(_, _, _, _)
clearFilesWalk(ih, refs, t, i) ==
    LET r    == IndexRef(refs, t, i)
        ih2  == [ih EXCEPT ![r].path = None, ![r].relative = None]
        next == getNextTrackIndexIn(trackHeap, refs, t, i)
    IN  IF next = << >> THEN [ih |-> ih2, exc |-> ""]
        ELSE clearFilesWalk(ih2, refs, next[1], next[2])

\* Table.clearFiles()
clearFiles(tb) ==
    LET refs == table[tb].tracks
    IN  IF Len(refs) = 0 THEN [ih |-> indexHeap, exc |-> "IndexError"]
        ELSE IF DOMAIN trackHeap[refs[1]].indexes = {}
             THEN [ih |-> indexHeap, exc |-> "IndexError"]
        ELSE clearFilesWalk(indexHeap, refs, trackHeap[refs[1]].number,
                            getFirstIndex(trackHeap[refs[1]]))

RECURSIVE setFileWalk(_, _, _, _, _, _, _, _)
setFileWalk(ih, refs, t, i, start, end, path, counter) ==
    LET r == IndexRef(refs, t, i)
    IN  IF ~PyLessEq(ih[r].absolute, Some(end)) THEN [ih |-> ih, exc |-> ""]
        ELSE IF IsNone(ih[r].absolute)
             \* None <= end holds in Python 2; None - start raises, path is set
             THEN [ih |-> [ih EXCEPT ![r].path = Some(path)], exc |-> "TypeError"]
        ELSE LET ih2  == [ih EXCEPT ![r].path = Some(path),
                                    ![r].relative = Some(Val(ih[r].absolute) - start),
                                    ![r].counter = counter]
                 next == getNextTrackIndexIn(trackHeap, refs, t, i)
             IN  IF next = << >> THEN [ih |-> ih2, exc |-> ""]
                 ELSE setFileWalk(ih2, refs, next[1], next[2], start, end, path, counter)

\* Table.setFile(track, index, path, length, counter), track in 1..len(tracks)
setFile(tb, track, index, path, length, counter) ==
    LET refs == table[tb].tracks
    IN  IF index \notin DOMAIN trackHeap[refs[track]].indexes
        THEN [ih |-> indexHeap, exc |-> "KeyError"]
        ELSE LET start == indexHeap[IndexRef(refs, track, index)].absolute
             IN  IF IsNone(start) THEN [ih |-> indexHeap, exc |-> "AssertionError"]
                 ELSE setFileWalk(indexHeap, refs, track, index, Val(start),
                                  Val(start) + length - 1, path, counter)

\* as absolutizeWalk, raising on every absolute offset that is already set
RECURSIVE absolutizeWalkStrict(_, _, _, _, _)
absolutizeWalkStrict(ih, refs, t, i, counter) ==
    LET r == IndexRef(refs, t, i)
    IN  IF IsNone(ih[r].counter) THEN [ih |-> ih, exc |-> ""]
        ELSE IF ih[r].counter # counter THEN [ih |-> ih, exc |-> ""]
        ELSE IF ~IsNone(ih[r].absolute) THEN [ih |-> ih, exc |-> "ValueError"]
        ELSE LET ih2  == [ih EXCEPT ![r].absolute = ih[r].relative]
                 next == getNextTrackIndexIn(trackHeap, refs, t, i)
             IN  IF next = << >> THEN [ih |-> ih2, exc |-> ""]
                 ELSE absolutizeWalkStrict(ih2, refs, next[1], next[2], counter)

\* as absolutizeWalk, overriding an absolute offset that disagrees
RECURSIVE absolutizeWalkOverriding(_, _, _, _, _)
absolutizeWalkOverriding(ih, refs, t, i, counter) ==
    LET r == IndexRef(refs, t, i)
    IN  IF IsNone(ih[r].counter) THEN [ih |-> ih, exc |-> ""]
        ELSE IF ih[r].counter # counter THEN [ih |-> ih, exc |-> ""]
        ELSE LET ih2  == [ih EXCEPT ![r].absolute = ih[r].relative]
                 next == getNextTrackIndexIn(trackHeap, refs, t, i)
             IN  IF next = << >> THEN [ih |-> ih2, exc |-> ""]
                 ELSE absolutizeWalkOverriding(ih2, refs, next[1], next[2], counter)

RECURSIVE absolutizeWalk(_, _, _, _, _)
absolutizeWalk(ih, refs, t, i, counter) ==
    LET r == IndexRef(refs, t, i)
    IN  IF IsNone(ih[r].counter) THEN [ih |-> ih, exc |-> ""]
        ELSE IF ih[r].counter # counter THEN [ih |-> ih, exc |-> ""]
        ELSE IF ~IsNone(ih[r].absolute) /\ ih[r].absolute # ih[r].relative
             \* '%d' % None, in the message of the ValueError, raises TypeError
             THEN [ih |-> ih,
                   exc |-> IF IsNone(ih[r].relative) THEN "TypeError" ELSE "ValueError"]
        ELSE LET ih2  == [ih EXCEPT ![r].absolute = ih[r].relative]
                 next == getNextTrackIndexIn(trackHeap, refs, t, i)
             IN  IF next = << >> THEN [ih |-> ih2, exc |-> ""]
                 ELSE absolutizeWalk(ih2, refs, next[1], next[2], counter)

\* Table.absolutize() on the Index heap ih
absolutizeIn(ih, tb) ==
    LET refs == table[tb].tracks
    IN  IF Len(refs) = 0 THEN [ih |-> ih, exc |-> "IndexError"]
        ELSE IF DOMAIN trackHeap[refs[1]].indexes = {}
             THEN [ih |-> ih, exc |-> "IndexError"]
        ELSE LET first == getFirstIndex(trackHeap[refs[1]])
             IN  absolutizeWalk(ih, refs, trackHeap[refs[1]].number, first,
                                ih[IndexRef(refs, 1, first)].counter)

absolutize(tb) == absolutizeIn(indexHeap, tb)

\* as deepcopy, by copy.copy(track): a new Track on the Index objects of the old
copyOfTrackAlone(th, ih, ref) ==
    [th |-> Append(th, th[ref]), ih |-> ih, ref |-> Len(th) + 1]

\* copy.deepcopy(track): a new Track with new Index objects, an Index of the
\* copy for each of the track's, under the same numbers
deepcopy(th, ih, ref) ==
    LET src  == th[ref]
        keys == Keys(src.indexes)
    IN  [th  |-> Append(th, [src EXCEPT !.indexes =
                     [k \in DOMAIN src.indexes |-> Len(ih) + Position(keys, k)]]),
         ih  |-> ih \o [j \in 1..Len(keys) |-> ih[src.indexes[keys[j]]]],
         ref |-> Len(th) + 1]

\* as shiftIndexes, leaving the counters as they were in the other table
shiftAbsoluteAlone(ih, rs, offset, sourceCounter) ==
    [r \in 1..Len(ih) |->
        IF r \notin rs THEN ih[r]
        ELSE [ih[r] EXCEPT
                 !.absolute = IF IsNone(@) THEN @ ELSE Some(Val(@) + offset)]]

\* the loop of merge over t.indexes.values(): the Index objects in rs, shifted
shiftIndexes(ih, rs, offset, sourceCounter) ==
    [r \in 1..Len(ih) |->
        IF r \notin rs THEN ih[r]
        ELSE [ih[r] EXCEPT
                 !.absolute = IF IsNone(@) THEN @ ELSE Some(Val(@) + offset),
                 !.counter  = IF IsNone(@) THEN @ ELSE Some(Val(@) + Val(sourceCounter))]]

\* the loop of merge over other.tracks, from its k-th track on; st holds the
\* receiver's track list and the heaps so far.  None + int raises TypeError
\* while the copy of a track is being shifted, before it is appended.
RECURSIVE mergeLoop(_, _, _, _, _, _, _, _)
mergeLoop(st, otherRefs, k, trackCount, leadout, gap, sourceCounter, session) ==
    IF k > Len(otherRefs) THEN st
    ELSE
        LET src   == st.th[otherRefs[k]]
            fails == \E key \in DOMAIN src.indexes :
                        \/ ~IsNone(st.ih[src.indexes[key]].absolute) /\ IsNone(leadout)
                        \/ ~IsNone(st.ih[src.indexes[key]].counter) /\ IsNone(sourceCounter)
        IN  IF fails THEN [st EXCEPT !.exc = "TypeError"]
            ELSE
                LET c    == deepcopy(st.th, st.ih, otherRefs[k])
                    t    == c.th[c.ref]
                    rs   == {t.indexes[key] : key \in DOMAIN t.indexes}
                    ih2  == IF rs = {} THEN c.ih
                            ELSE shiftIndexes(c.ih, rs, Val(leadout) + gap, sourceCounter)
                    th2  == [c.th EXCEPT ![c.ref].number = src.number + trackCount,
                                         ![c.ref].session = Some(session)]
                IN  mergeLoop([tracks |-> Append(st.tracks, c.ref), th |-> th2,
                               ih |-> ih2, exc |-> ""],
                              otherRefs, k + 1, trackCount, leadout, gap,
                              sourceCounter, session)

\* the outcome of merge: the receiver's track list and leadout, the heaps
mergeResult(st, leadout, exc) ==
    [tracks |-> st.tracks, th |-> st.th, ih |-> st.ih, leadout |-> leadout, exc |-> exc]

\* Table.merge(other, session): [tracks, th, ih, leadout, exc]
merge(tb, other, session) ==
    LET refs == table[tb].tracks
        st0  == [tracks |-> refs, th |-> trackHeap, ih |-> indexHeap, exc |-> ""]
    IN  IF Len(refs) = 0 \/ DOMAIN trackHeap[refs[Len(refs)]].indexes = {}
        THEN mergeResult(st0, table[tb].leadout, "IndexError")
        ELSE
            LET gap           == _getSessionGap(session)
                lastTrack     == trackHeap[refs[Len(refs)]]
                sourceCounter == indexHeap[lastTrack.indexes[getLastIndex(lastTrack)]].counter
                st == mergeLoop(st0, table[other].tracks, 1, Len(refs),
                                table[tb].leadout, gap, sourceCounter, session)
            IN  IF st.exc # "" THEN mergeResult(st, table[tb].leadout, st.exc)
                ELSE IF IsNone(table[tb].leadout) \/ IsNone(table[other].leadout)
                     THEN mergeResult(st, table[tb].leadout, "TypeError")
                ELSE mergeResult(st,
                        Some(Val(table[tb].leadout) + Val(table[other].leadout) + gap), "")

---------------------------------------------------------------------------
(* Table: the MusicBrainz disc id *)

\* the slots for track offsets in the hashed message: range(1, 100)
MBOffsetSlots == 99

\* Table._getMusicBrainzValues(): the list, or the exception
_getMusicBrainzValues(tb) ==
    LET n       == NTracks(tb)
        lastT   == TrackAt(tb, n)
        audioPs == SelectSeq([p \in 1..n |-> p], LAMBDA p : TrackAt(tb, p).audio)
        bad(p)  == \/ 1 \notin DOMAIN TrackAt(tb, p).indexes
                   \/ IsNone(GetIndex(TrackAt(tb, p), 1).absolute)
        firstBad == CHOOSE i \in 1..Len(audioPs) :
                        bad(audioPs[i]) /\ \A j \in 1..(i - 1) : ~bad(audioPs[j])
        leadout == IF hasDataTracks(tb)
                   THEN Val(GetIndex(lastT, 1).absolute) - 11250 - 150
                   ELSE Val(table[tb].leadout)
    IN  IF hasDataTracks(tb) /\ lastT.audio THEN Raise("AssertionError")
        ELSE IF hasDataTracks(tb) /\ 1 \notin DOMAIN lastT.indexes THEN Raise("KeyError")
        ELSE IF hasDataTracks(tb) /\ IsNone(GetIndex(lastT, 1).absolute) THEN Raise("TypeError")
        ELSE IF ~hasDataTracks(tb) /\ IsNone(table[tb].leadout) THEN Raise("TypeError")
        ELSE IF \E i \in 1..Len(audioPs) : bad(audioPs[i])
             THEN IF 1 \notin DOMAIN TrackAt(tb, audioPs[firstBad]).indexes
                  THEN Raise("KeyError") ELSE Raise("TypeError")
        ELSE Return(<<1, getAudioTracks(tb), 150 + leadout>>
                    \o [i \in 1..Len(audioPs) |->
                           Val(GetIndex(TrackAt(tb, audioPs[i]), 1).absolute) + 150])

\* the message getMusicBrainzDiscId hashes: first track, last track, leadout
\* and 99 offsets, 0 where the list has none.  SHA-1 and base64 map distinct
\* messages to distinct ids, so the message stands for the id.
discIdOf(values) ==
    <<values[1], values[2], values[3]>>
    \o [i \in 1..MBOffsetSlots |-> IF 3 + i <= Len(values) THEN values[3 + i] ELSE 0]

\* Table.getMusicBrainzDiscId(): [mbdiscid, exc, val]
getMusicBrainzDiscId(tb) ==
    IF ~IsNone(table[tb].mbdiscid)
    THEN [mbdiscid |-> table[tb].mbdiscid, exc |-> "", val |-> table[tb].mbdiscid]
    ELSE LET values == _getMusicBrainzValues(tb)
         IN  IF values.exc # ""
             THEN [mbdiscid |-> None, exc |-> values.exc, val |-> None]
             ELSE [mbdiscid |-> Some(discIdOf(values.val)), exc |-> "",
                   val |-> Some(discIdOf(values.val))]

---------------------------------------------------------------------------
(* Python ints beyond 31 bits: the int hi * 2^16 + lo is the pair          *)
(* << hi, lo >>, lo in 0..65535 and hi >= 0.                               *)

\* the int x >= 0
Long(x) == <<x \div 65536, x % 65536>>

\* x << k, for an int x >= 0
ShiftLeft(x, k) ==
    IF k >= 16 THEN <<x * 2^(k - 16), 0>>
    ELSE <<x \div 2^(16 - k), (x % 2^(16 - k)) * 2^k>>

\* a | b, for ints a, b >= 0
RECURSIVE BitOr(_, _)
BitOr(a, b) ==
    IF a = 0 THEN b
    ELSE IF b = 0 THEN a
    ELSE (IF a % 2 = 1 \/ b % 2 = 1 THEN 1 ELSE 0) + 2 * BitOr(a \div 2, b \div 2)

\* x | y
LongOr(x, y) == <<BitOr(x[1], y[1]), BitOr(x[2], y[2])>>

\* x + y
LongAdd(x, y) == <<x[1] + y[1] + (x[2] + y[2]) \div 65536, (x[2] + y[2]) % 65536>>

\* a * k, for an int a >= 0 and a small int k >= 0
LongMul(a, k) ==
    <<(a \div 65536) * k + ((a % 65536) * k) \div 65536, ((a % 65536) * k) % 65536>>

\* x & 0xffffffff
Mask32(x) == <<x[1] % 65536, x[2]>>

HexChars == <<"0", "1", "2", "3", "4", "5", "6", "7",
              "8", "9", "a", "b", "c", "d", "e", "f">>

\* the hexadecimal digits of an int n >= 0, at least width of them
RECURSIVE HexDigits(_, _)
HexDigits(n, width) ==
    IF n < 16 /\ width <= 1 THEN <<HexChars[n + 1]>>
    ELSE Append(HexDigits(n \div 16, width - 1), HexChars[(n % 16) + 1])

\* "%08x" % x
Hex08(x) == HexDigits(x[1], 4) \o HexDigits(x[2], 4)

---------------------------------------------------------------------------
(* Table: the CDDB disc id and the AccurateRip ids *)

\* Table._cddbSum(i): the sum of the decimal digits of i
RECURSIVE _cddbSum(_)
_cddbSum(i) == IF i > 0 THEN (i % 10) + _cddbSum(i \div 10) ELSE 0

\* the checksum byte, were it n modulo 256
cddbChecksum256(n) == n % 256

\* n % 0xff
cddbChecksum(n) == n % 255

\* Table.getCDDBValues(): the list [value, audio tracks, offsets..., seconds],
\* value a Long, or the exception
getCDDBValues(tb) ==
    LET n        == NTracks(tb)
        start(p) == getTrackStart(tb, TrackAt(tb, p).number)
        bad(p)   == start(p).exc # "" \/ IsNone(start(p).val)
        firstBad == CHOOSE p \in 1..n : bad(p) /\ \A q \in 1..(p - 1) : ~bad(q)
        offset(p) == Val(start(p).val) + 2 * 75
        sums     == [p \in 1..n |-> _cddbSum(offset(p) \div 75)]
        total[p \in 0..n] == IF p = 0 THEN 0 ELSE total[p - 1] + sums[p]
        end      == getTrackEnd(tb, TrackAt(tb, n).number)
        leadout  == Val(end.val) + 1
        startSeconds   == Val(getTrackStart(tb, 1).val) \div 75
        leadoutSeconds == leadout \div 75
        t        == leadoutSeconds - startSeconds
        value    == LongOr(LongOr(ShiftLeft(cddbChecksum(total[n]), 24), ShiftLeft(t, 8)),
                           Long(n))
    IN  IF \E p \in 1..n : bad(p)
        THEN IF start(firstBad).exc # "" THEN start(firstBad) ELSE Raise("TypeError")
        ELSE IF n = 0 THEN Raise("IndexError")
        ELSE IF end.exc # "" THEN end
        ELSE Return(<<value, getAudioTracks(tb)>> \o [p \in 1..n |-> offset(p)]
                    \o <<leadoutSeconds>>)

\* Table.getCDDBDiscId(): the digits of the id, or the exception
getCDDBDiscId(tb) ==
    LET values == getCDDBValues(tb)
    IN  IF values.exc # "" THEN values ELSE Return(Hex08(values.val[1]))

\* as accuraterip_ids adds a track start to discId2, without the "or 1"
orOneDropped(offset) == offset

\* offset or 1
orOne(offset) == IF offset = 0 THEN 1 ELSE offset

\* Table.accuraterip_ids(): the pair of the two ids' digits, or the exception
accuraterip_ids(tb) ==
    LET n        == NTracks(tb)
        audioPs  == SelectSeq([p \in 1..n |-> p], LAMBDA p : TrackAt(tb, p).audio)
        start(p) == getTrackStart(tb, TrackAt(tb, p).number)
        bad(p)   == start(p).exc # "" \/ IsNone(start(p).val)
        firstBad == CHOOSE i \in 1..Len(audioPs) :
                        bad(audioPs[i]) /\ \A j \in 1..(i - 1) : ~bad(audioPs[j])
        id1[i \in 0..Len(audioPs)] ==
            IF i = 0 THEN Long(0)
            ELSE LongAdd(id1[i - 1], Long(Val(start(audioPs[i]).val)))
        id2[i \in 0..Len(audioPs)] ==
            IF i = 0 THEN Long(0)
            ELSE LongAdd(id2[i - 1],
                         LongMul(orOne(Val(start(audioPs[i]).val)),
                                 TrackAt(tb, audioPs[i]).number))
        end      == getTrackEnd(tb, TrackAt(tb, n).number)
        offset   == Val(end.val) + 1
        discId1  == LongAdd(id1[Len(audioPs)], Long(offset))
        discId2  == LongAdd(id2[Len(audioPs)], LongMul(offset, getAudioTracks(tb) + 1))
    IN  IF \E i \in 1..Len(audioPs) : bad(audioPs[i])
        THEN IF start(audioPs[firstBad]).exc # "" THEN start(audioPs[firstBad])
             ELSE Raise("TypeError")
        ELSE IF n = 0 THEN Raise("IndexError")
        ELSE IF end.exc # "" THEN end
        ELSE Return(<<Hex08(Mask32(discId1)), Hex08(Mask32(discId2))>>)

---------------------------------------------------------------------------
(* Table.cue(), called with the default cuePath '' so that a FILE line     *)
(* names the index's path as it is.  The tables of the model carry no      *)
(* CD-Text, catalog, ISRC or pre-emphasis, so the lines for those are      *)
(* never written.  A line is a tuple: its keyword, then its fields.        *)

\* common.framesToMSF(frames): minutes, seconds, frames at 75 frames a
\* second and 60 seconds a minute
framesToMSF(frames) == <<frames \div (75 * 60), (frames \div 75) % 60, frames % 75>>

\* str.upper() of hexadecimal digits
Upper(digits) ==
    [i \in 1..Len(digits) |->
        CASE digits[i] = "a" -> "A" [] digits[i] = "b" -> "B" [] digits[i] = "c" -> "C"
          [] digits[i] = "d" -> "D" [] digits[i] = "e" -> "E" [] digits[i] = "f" -> "F"
          [] OTHER -> digits[i]]

\* the while loop before the first FILE line, at index i of track t: the
\* first index with a path, as [exc, path, counter]
RECURSIVE cueFirstFile(_, _, _)
cueFirstFile(tb, t, i) ==
    LET track == TrackAt(tb, t)
        index == GetIndex(track, i)
        next  == getNextTrackIndex(tb, track.number, index.number)
    IN  IF ~IsNone(index.path)
        THEN [exc |-> "", path |-> index.path, counter |-> index.counter]
        ELSE IF next = << >> THEN [exc |-> "IndexError", path |-> None, counter |-> None]
        ELSE cueFirstFile(tb, next[1], next[2])

\* the loops over the tracks and their sorted index numbers, at the j-th
\* index of the track at position p; st is [lines, counter, exc]
RECURSIVE cueLoop(_, _, _, _)
cueLoop(tb, p, j, st) ==
    IF st.exc # "" \/ p > NTracks(tb) THEN st
    ELSE LET track   == TrackAt(tb, p)
             indexes == SortedKeys(track.indexes)
         IN  IF ~track.audio \/ j > Len(indexes) THEN cueLoop(tb, p + 1, 1, st)
             ELSE
             LET number  == indexes[j]
                 index   == GetIndex(track, number)
                 higher  == PyGreater(index.counter, st.counter)
                 filed   == IF higher /\ ~IsNone(index.path)
                            THEN Append(st.lines, <<"FILE", Val(index.path)>>)
                            ELSE st.lines
                 counter == IF higher THEN index.counter ELSE st.counter
                 first   == j = 1
                 headed  == IF first THEN Append(filed, <<"TRACK", p, "AUDIO">>) ELSE filed
                 index00 == GetIndex(track, 0)
                 indexOne == GetIndex(TrackAt(tb, 1), 1)
                 silent  == first /\ 0 \in DOMAIN track.indexes /\ p = 1
                            /\ IsNone(index00.path)
                 after00 == IF first /\ 0 \in DOMAIN track.indexes
                            THEN Append(headed, <<"INDEX", 0, framesToMSF(Val(index00.relative))>>)
                            ELSE headed
             IN  IF silent
                 THEN IF IsNone(index00.absolute)
                      THEN [st EXCEPT !.exc = "TypeError", !.lines = headed]
                      ELSE cueLoop(tb, p, j + 1,
                               [lines |-> Append(headed,
                                    <<"PREGAP", framesToMSF(Val(indexOne.absolute)
                                                            - Val(index00.absolute))>>),
                                counter |-> counter, exc |-> ""])
                 ELSE IF first /\ 0 \in DOMAIN track.indexes /\ IsNone(index00.relative)
                 THEN [st EXCEPT !.exc = "TypeError", !.lines = headed]
                 ELSE IF number > 0 /\ IsNone(index.relative)
                 THEN [st EXCEPT !.exc = "TypeError", !.lines = after00]
                 ELSE cueLoop(tb, p, j + 1,
                          [lines |-> IF number > 0
                                     THEN Append(after00,
                                              <<"INDEX", number, framesToMSF(Val(index.relative))>>)
                                     ELSE after00,
                           counter |-> counter, exc |-> ""])

\* as cue, without the FILE line written before the first TRACK
cueWithoutFirstFile(tb) ==
    LET discid == getCDDBDiscId(tb)
        header == << <<"REM DISCID", Upper(discid.val)>>, <<"REM COMMENT">> >>
        file   == cueFirstFile(tb, 1, getFirstIndex(TrackAt(tb, 1)))
        body   == cueLoop(tb, 1, 1,
                      [lines |-> header, counter |-> file.counter, exc |-> ""])
    IN  IF ~hasTOC(tb) THEN Raise("AssertionError")
        ELSE IF discid.exc # "" THEN discid
        ELSE IF file.exc # "" THEN Raise(file.exc)
        ELSE IF body.exc # "" THEN Raise(body.exc)
        ELSE Return(Some(Append(body.lines, <<"">>)))

\* Table.cue(): the lines joined into the text, or the exception
cue(tb) ==
    LET discid == getCDDBDiscId(tb)
        header == << <<"REM DISCID", Upper(discid.val)>>, <<"REM COMMENT">> >>
        file   == cueFirstFile(tb, 1, getFirstIndex(TrackAt(tb, 1)))
        body   == cueLoop(tb, 1, 1,
                      [lines |-> Append(header, <<"FILE", Val(file.path)>>),
                       counter |-> file.counter, exc |-> ""])
    IN  IF ~hasTOC(tb) THEN Raise("AssertionError")
        ELSE IF discid.exc # "" THEN discid
        ELSE IF file.exc # "" THEN Raise(file.exc)
        ELSE IF body.exc # "" THEN Raise(body.exc)
        ELSE Return(Some(Append(body.lines, <<"">>)))

---------------------------------------------------------------------------
(* Construction: Table(tracks) of Track(number, audio) objects, their      *)
(* indexes added by Track.index(...).  Track.__init__ drops its session    *)
(* argument, so a track's session is None (the class attribute) unless a   *)
(* caller or merge assigns it.                                             *)

\* Index(number, absolute, path, relative, counter)
Index(number, absolute, path, relative, counter) ==
    [number |-> number, absolute |-> absolute, path |-> path,
     relative |-> relative, counter |-> counter]

\* where track p of an initial table begins
TrackBase(p) == (p - 1) * 15000

\* the offset of index k of track p, of a track with the index numbers ks
IndexOffset(p, ks, k) ==
    TrackBase(p) + (IF k = 0 THEN 0 ELSE IF k = 1 THEN (IF 0 \in ks THEN 150 ELSE 0) ELSE 300)

\* how far the indexes of an initial track are filled in, x being the offset
\* of the index and p its track:
\*   "toc"      the absolute offset alone, as read from a disc
\*   "unset"    nothing yet
\*   "rel"      one file for the disc, known by relative offsets alone
\*   "both"     one file for the disc, absolute and relative offsets
\*   "second"   a file of its own for the track (counter 1)
\*   "conflict" offsets relative to the track, under the counter of the disc's file
Modes == {"toc", "unset", "rel", "both", "second", "conflict"}

FilledIndex(mode, p, k, x) ==
    CASE mode = "toc"      -> Index(k, Some(x), None, None, None)
      [] mode = "unset"    -> Index(k, None, None, None, None)
      [] mode = "rel"      -> Index(k, None, Some("a.wav"), Some(x), Some(0))
      [] mode = "both"     -> Index(k, Some(x), Some("a.wav"), Some(x), Some(0))
      [] mode = "second"   -> Index(k, Some(x), Some("b.wav"), Some(x - TrackBase(p)), Some(1))
      [] mode = "conflict" -> Index(k, Some(x), Some("a.wav"), Some(x - TrackBase(p)), Some(0))

\* Track(p, audio) with session assigned, and an index for each number of ks
Track(p, ks, mode, audio, session) ==
    [number |-> p, audio |-> audio, session |-> session,
     indexes |-> [k \in ks |-> FilledIndex(mode, p, k, IndexOffset(p, ks, k))]]

AudioTrack(p, ks, mode) == Track(p, ks, mode, TRUE, None)

\* Table(tracks) and its leadout
Table(tracks, leadout) == [tracks |-> tracks, leadout |-> leadout]

\* the objects of the tracks from views[p] on, put on the heaps of st
RECURSIVE allocate(_, _, _)
allocate(st, views, p) ==
    IF p > Len(views) THEN st
    ELSE LET tv   == views[p]
             keys == Keys(tv.indexes)
         IN  allocate(
                [tracks |-> Append(st.tracks, Len(st.th) + 1),
                 th |-> Append(st.th, [tv EXCEPT !.indexes =
                           [k \in DOMAIN tv.indexes |-> Len(st.ih) + Position(keys, k)]]),
                 ih |-> st.ih \o [j \in 1..Len(keys) |-> tv.indexes[keys[j]]]],
                views, p + 1)

---------------------------------------------------------------------------
(* The initial tables.  "a" and "b" are two Table objects; either can be   *)
(* merged into the other.                                                  *)

\* the table a TOC reader builds for the disc merged as a further session
OtherToc == Table(<<AudioTrack(1, {1}, "toc")>>, Some(1000))

\* tables that hold a table of contents and no files: one or two tracks,
\* with and without pre-gap, sessions assigned or not, a data track last
TocTables ==
    {Table(<<AudioTrack(1, ks, "toc")>>, l) :
        ks \in {{1}, {0, 1}}, l \in {None, Some(1000), Some(30150)}}
    \cup
    {Table(<<Track(1, ks[1], "toc", TRUE, ss[1]), Track(2, ks[2], "toc", au, ss[2])>>,
           Some(30150)) :
        ks \in {<<{1}, {1}>>, <<{0, 1}, {1}>>, <<{1}, {0, 1}>>, <<{1}, {1, 8}>>},
        ss \in {<<None, None>>, <<None, Some(2)>>, <<Some(2), Some(3)>>},
        au \in BOOLEAN}

\* tables being assembled from files
FileTables ==
    {Table(<<AudioTrack(1, ks[1], ms[1]), AudioTrack(2, ks[2], ms[2])>>, Some(30150)) :
        ks \in {<<{1}, {1}>>, <<{0, 1}, {1}>>, <<{1}, {1, 8}>>, <<{1, 8}, {1}>>},
        ms \in {<<"rel", "rel">>, <<"both", "both">>, <<"both", "second">>,
                <<"both", "conflict">>, <<"rel", "conflict">>, <<"rel", "unset">>,
                <<"toc", "unset">>}}

\* tables with a track that has no index, or no index 1, yet
PartialTables ==
    {Table(<<>>, None),
     Table(<<AudioTrack(1, {1}, "both"), AudioTrack(2, {}, "both"),
             AudioTrack(3, {1}, "both")>>, Some(45150)),
     Table(<<AudioTrack(1, {1}, "toc"), AudioTrack(2, {0}, "toc")>>, Some(30150)),
     Table(<<AudioTrack(1, {1}, "toc"), AudioTrack(2, {}, "toc")>>, Some(30150))}

\* the tables merged in
OtherTables ==
    {OtherToc,
     Table(<<AudioTrack(1, {0, 1}, "both")>>, Some(1000)),
     Table(<<AudioTrack(1, {1}, "rel")>>, Some(1000)),
     Table(<<AudioTrack(1, {1}, "toc")>>, None)}

InitialTables ==
    {[a |-> ta, b |-> OtherToc] : ta \in TocTables \cup FileTables \cup PartialTables}
    \cup
    {[a |-> ta, b |-> tb] :
        ta \in {Table(<<AudioTrack(1, {1}, "toc"), AudioTrack(2, {1}, "toc")>>, Some(30150)),
                Table(<<AudioTrack(1, {1}, "both"), AudioTrack(2, {1}, "both")>>, Some(30150)),
                Table(<<AudioTrack(1, {1}, "both"), AudioTrack(2, {1, 8}, "second")>>, Some(30150)),
                Table(<<AudioTrack(1, {1}, "toc")>>, None)},
        tb \in OtherTables}

\* a call that was never made
NoCall ==
    [op |-> "", tb |-> "", other |-> "", track |-> 0, index |-> 0, path |-> "",
     length |-> 0, counter |-> None, session |-> 0, exc |-> "", val |-> None]

\* the state after the tables of it are constructed
Constructed(it) ==
    LET sa == allocate([tracks |-> <<>>, th |-> <<>>, ih |-> <<>>], it.a.tracks, 1)
        sb == allocate([tracks |-> <<>>, th |-> sa.th, ih |-> sa.ih], it.b.tracks, 1)
    IN  /\ table = [tb \in TableNames |->
                       IF tb = "a"
                       THEN [tracks |-> sa.tracks, leadout |-> it.a.leadout,
                             mbdiscid |-> None]
                       ELSE [tracks |-> sb.tracks, leadout |-> it.b.leadout,
                             mbdiscid |-> None]]
        /\ trackHeap = sb.th
        /\ indexHeap = sb.ih
        /\ last = NoCall
        /\ pre = Snapshot
        /\ steps = 0

Init == \E it \in InitialTables : Constructed(it)

\* the initial tables whose tracks have no index but 0 and 1: keys() lists
\* these in ascending order
PlainTables ==
    {it \in InitialTables :
        \A tb \in TableNames : \A p \in 1..Len(it[tb].tracks) :
            DOMAIN it[tb].tracks[p].indexes \subseteq {0, 1}}

InitPlain == \E it \in PlainTables : Constructed(it)

\* frames between the starts of two tracks of a long disc: 199 s and 239 s,
\* and a spacing no disc has, that takes the AccurateRip sums beyond 32 bits
Spacings == {14925, 17925, 1000000000}

\* Track(p, audio) of a long disc, with index(1, absolute=(p - 1) * spacing)
LongTrack(p, spacing, audio) ==
    [number |-> p, audio |-> audio, session |-> None,
     indexes |-> (1 :> Index(1, Some((p - 1) * spacing), None, None, None))]

\* the table a TOC reader builds for a disc of n tracks, the last one a data
\* track or not
LongDisc(n, spacing, dataLast) ==
    Table([p \in 1..n |-> LongTrack(p, spacing, ~(dataLast /\ p = n))], Some(n * spacing))

LongDiscs ==
    {LongDisc(c[1], c[2], c[3]) :
        c \in {d \in (1..MaxDiscTracks) \X Spacings \X BOOLEAN :
                  /\ d[2] <= 2000000000 \div d[1]
                  /\ d[3] => d[1] >= 2}}

\* the discs whose ids and cue sheet are read
IdTables == InitialTables \cup {[a |-> d, b |-> OtherToc] : d \in LongDiscs}

InitIds == \E it \in IdTables : Constructed(it)

---------------------------------------------------------------------------
(* The calls.  Every call records itself in last and what the tables held  *)
(* before it in pre.                                                       *)

\* the arguments the calls are made with
Paths == {"c.wav"}

Lengths == {150, 15001}

Counters == {None, Some(0)}

Sessions == {2, 3}

Call(op, tb, exc, val) == [NoCall EXCEPT !.op = op, !.tb = tb, !.exc = exc, !.val = val]

\* a read-only call
Query(call) ==
    /\ last' = call
    /\ pre' = Snapshot
    /\ UNCHANGED <<table, trackHeap, indexHeap, steps>>

GetTrackStart(tb, number) ==
    /\ number \in 1..NTracks(tb)
    /\ LET r == getTrackStart(tb, number)
       IN  Query([Call("getTrackStart", tb, r.exc, r.val) EXCEPT !.track = number])

GetTrackEnd(tb, number) ==
    /\ number \in 1..NTracks(tb)
    /\ LET r == getTrackEnd(tb, number)
       IN  Query([Call("getTrackEnd", tb, r.exc, r.val) EXCEPT !.track = number])

GetTrackLength(tb, number) ==
    /\ number \in 1..NTracks(tb)
    /\ LET r == getTrackLength(tb, number)
       IN  Query([Call("getTrackLength", tb, r.exc, r.val) EXCEPT !.track = number])

GetCDDBValues(tb) ==
    LET r == getCDDBValues(tb)
    IN  Query(Call("getCDDBValues", tb, r.exc, r.val))

AccurateripIds(tb) ==
    LET r == accuraterip_ids(tb)
    IN  Query(Call("accuraterip_ids", tb, r.exc, r.val))

Cue(tb) ==
    LET r == cue(tb)
    IN  Query(Call("cue", tb, r.exc, r.val))

\* getMusicBrainzDiscId writes the table when it has no id cached
GetMusicBrainzDiscId(tb) ==
    LET r == getMusicBrainzDiscId(tb)
    IN  /\ IsNone(table[tb].mbdiscid) => steps < MaxSteps
        /\ table' = [table EXCEPT ![tb].mbdiscid = r.mbdiscid]
        /\ last' = Call("getMusicBrainzDiscId", tb, r.exc, r.val)
        /\ pre' = Snapshot
        /\ steps' = IF IsNone(table[tb].mbdiscid) THEN steps + 1 ELSE steps
        /\ UNCHANGED <<trackHeap, indexHeap>>

\* a call that writes Index objects alone
Mutate(call, r) ==
    /\ steps < MaxSteps
    /\ indexHeap' = r.ih
    /\ last' = [call EXCEPT !.exc = r.exc]
    /\ pre' = Snapshot
    /\ steps' = steps + 1
    /\ UNCHANGED <<table, trackHeap>>

ClearFiles(tb) ==
    /\ tb \in TableNames
    /\ Mutate(Call("clearFiles", tb, "", None), clearFiles(tb))

SetFile(tb, track, index, path, length, counter) ==
    /\ track \in 1..NTracks(tb)
    /\ Mutate([Call("setFile", tb, "", None) EXCEPT
                  !.track = track, !.index = index, !.path = path,
                  !.length = length, !.counter = counter],
              setFile(tb, track, index, path, length, counter))

Absolutize(tb) ==
    /\ tb \in TableNames
    /\ Mutate(Call("absolutize", tb, "", None), absolutize(tb))

Merge(tb, other, session) ==
    /\ steps < MaxSteps
    /\ other # tb
    /\ NTracks(tb) + NTracks(other) <= MaxTracks
    /\ LET r == merge(tb, other, session)
       IN  /\ table' = [table EXCEPT ![tb].tracks = r.tracks, ![tb].leadout = r.leadout]
           /\ trackHeap' = r.th
           /\ indexHeap' = r.ih
           /\ last' = [Call("merge", tb, r.exc, None) EXCEPT
                          !.other = other, !.session = session]
    /\ pre' = Snapshot
    /\ steps' = steps + 1

Next ==
    \/ \E tb \in TableNames, n \in 1..MaxTracks : GetTrackStart(tb, n)
    \/ \E tb \in TableNames, n \in 1..MaxTracks : GetTrackEnd(tb, n)
    \/ \E tb \in TableNames, n \in 1..MaxTracks : GetTrackLength(tb, n)
    \/ \E tb \in TableNames : GetMusicBrainzDiscId(tb)
    \/ \E tb \in TableNames : Cue(tb)
    \/ \E tb \in TableNames : ClearFiles(tb)
    \/ \E tb \in TableNames, t \in 1..MaxTracks, i \in IndexNumbers,
          path \in Paths, length \in Lengths, counter \in Counters :
            SetFile(tb, t, i, path, length, counter)
    \/ \E tb \in TableNames : Absolutize(tb)
    \/ \E tb, other \in TableNames, session \in Sessions : Merge(tb, other, session)

Spec == Init /\ [][Next]_vars

\* the same calls, on discs without an index above 1
SpecPlain == InitPlain /\ [][Next]_vars

\* the calls that read the ids and the cue sheet of a disc
NextIds ==
    \/ \E tb \in TableNames : GetCDDBValues(tb)
    \/ \E tb \in TableNames : AccurateripIds(tb)
    \/ \E tb \in TableNames : Cue(tb)

\* those calls, on the initial discs and on long discs
SpecIds == InitIds /\ [][NextIds]_vars

---------------------------------------------------------------------------
(* Properties *)

\* the session of track p of table tb
SessionOf(tb, p) == TrackAt(tb, p).session

\* session s2 is a later session than s1, an unset session being before any
LaterSession(s2, s1) == ~IsNone(s2) /\ (IsNone(s1) \/ Val(s2) > Val(s1))

\* C1: on a table with a complete TOC, getTrackEnd(n) is the leadout - 1 for
\* the last track; for another track it is getTrackStart(n+1) - 1 when track
\* n+1 is in the same session, and a further 11400 frames less when track n+1
\* begins session 2, 6900 less when it begins a session after the second.
C1_TrackEnd ==
    (last.op = "getTrackEnd" /\ hasTOC(last.tb)) =>
        LET tb == last.tb
            n  == last.track
        IN  /\ last.exc = ""
            /\ n = NTracks(tb) => last.val = Some(Val(table[tb].leadout) - 1)
            /\ n < NTracks(tb) =>
                LET nextStart == Val(getTrackStart(tb, n + 1).val)
                    s1 == SessionOf(tb, n)
                    s2 == SessionOf(tb, n + 1)
                IN  /\ s2 = s1 => last.val = Some(nextStart - 1)
                    /\ (LaterSession(s2, s1) /\ s2 = Some(2)) =>
                            last.val = Some(nextStart - 1 - 11400)
                    /\ (LaterSession(s2, s1) /\ Val(s2) > 2) =>
                            last.val = Some(nextStart - 1 - 6900)

\* getTrackEnd was called on a track before the first track of a third session
C1_Witness ==
    /\ last.op = "getTrackEnd"
    /\ hasTOC(last.tb)
    /\ last.track < NTracks(last.tb)
    /\ SessionOf(last.tb, last.track + 1) = Some(3)
    /\ LaterSession(Some(3), SessionOf(last.tb, last.track))
    /\ last.exc = ""

\* the table of the scenario: one session, two audio tracks, index 1 of track
\* 1 at 0 and of track 2 at 15000, leadout 30150
TwoTrackScenario(tb) ==
    /\ NTracks(tb) = 2
    /\ \A p \in 1..2 : TrackAt(tb, p).audio /\ 1 \in DOMAIN TrackAt(tb, p).indexes
    /\ SessionOf(tb, 1) = SessionOf(tb, 2)
    /\ GetIndex(TrackAt(tb, 1), 1).absolute = Some(0)
    /\ GetIndex(TrackAt(tb, 2), 1).absolute = Some(15000)
    /\ table[tb].leadout = Some(30150)

\* C2 as stated: in the scenario getTrackLength(1) = 15000 and
\* getTrackLength(2) = 15151.
C2_AsStated ==
    (last.op = "getTrackLength" /\ TwoTrackScenario(last.tb)) =>
        /\ last.track = 1 => last.val = Some(15000)
        /\ last.track = 2 => last.val = Some(15151)

\* C2: in the scenario getTrackLength(1) = 15000 and getTrackLength(2) = 15150,
\* each being getTrackEnd(n) - getTrackStart(n) + 1.
C2_TrackLength ==
    (last.op = "getTrackLength" /\ TwoTrackScenario(last.tb)) =>
        /\ last.exc = ""
        /\ last.track = 1 => last.val = Some(15000)
        /\ last.track = 2 => last.val = Some(15150)
        /\ last.val = Some(Val(getTrackEnd(last.tb, last.track).val)
                           - Val(getTrackStart(last.tb, last.track).val) + 1)

\* getTrackLength(2) was called in the scenario
C2_Witness ==
    /\ last.op = "getTrackLength"
    /\ TwoTrackScenario(last.tb)
    /\ last.track = 2
    /\ last.exc = ""

\* the table that is not tb
OtherOf(tb) == IF tb = "a" THEN "b" ELSE "a"

\* the highest index number of a track view
LastIndexOf(track) == CHOOSE k \in DOMAIN track.indexes : \A j \in DOMAIN track.indexes : j <= k

\* the gap between sessions, for the sessions 2 and above
InterSessionGap(session) == IF session = 2 THEN 11400 ELSE 6900

\* C3: when merge(other, session) returns, on a table that had N tracks,
\* leadout L and whose last track's last index had counter C, the table has
\* N + len(other.tracks) tracks; the k-th appended track is other's k-th with
\* number + N and the session given; every set absolute offset of its indexes
\* is the original + L + gap and every set counter the original + C, unset ones
\* stay unset; the leadout is L + other.leadout + gap.
C3_Merge ==
    (last.op = "merge" /\ last.exc = "") =>
        LET old == pre[last.tb]
            o   == pre[last.other]
            new == TableView(last.tb)
            N   == Len(old.tracks)
            L   == Val(old.leadout)
            gap == InterSessionGap(last.session)
            C   == old.tracks[N].indexes[LastIndexOf(old.tracks[N])].counter
        IN  /\ N > 0
            /\ Len(new.tracks) = N + Len(o.tracks)
            /\ \A k \in 1..Len(o.tracks) :
                LET src == o.tracks[k]
                    cp  == new.tracks[N + k]
                IN  /\ cp.number = src.number + N
                    /\ cp.session = Some(last.session)
                    /\ cp.audio = src.audio
                    /\ DOMAIN cp.indexes = DOMAIN src.indexes
                    /\ \A i \in DOMAIN src.indexes :
                        LET x == src.indexes[i]
                            y == cp.indexes[i]
                        IN  /\ y.number = x.number
                            /\ y.path = x.path
                            /\ y.relative = x.relative
                            /\ y.absolute = IF IsNone(x.absolute) THEN None
                                            ELSE Some(Val(x.absolute) + L + gap)
                            /\ y.counter = IF IsNone(x.counter) THEN None
                                           ELSE Some(Val(x.counter) + Val(C))
            /\ new.leadout = Some(L + Val(o.leadout) + gap)

\* a merge returned that appended an index with a set absolute offset, and a
\* set counter that it shifted by a counter C other than 0
C3_Witness ==
    /\ last.op = "merge"
    /\ last.exc = ""
    /\ LET old == pre[last.tb]
           N   == Len(old.tracks)
       IN  /\ old.tracks[N].indexes[LastIndexOf(old.tracks[N])].counter = Some(1)
           /\ \E i \in DOMAIN pre[last.other].tracks[1].indexes :
                /\ pre[last.other].tracks[1].indexes[i].counter = Some(0)
                /\ ~IsNone(pre[last.other].tracks[1].indexes[i].absolute)
                /\ TableView(last.tb).tracks[N + 1].indexes[i].counter = Some(1)

\* C4: merge leaves the other table as it was, the two tables share no Track
\* and no Index object, and a setFile, clearFiles, absolutize or merge on one
\* table leaves the other table as it was.
C4_OtherUntouched ==
    /\ TrackRefs("a") \cap TrackRefs("b") = {}
    /\ IndexRefs("a") \cap IndexRefs("b") = {}
    /\ last.op \in {"merge", "setFile", "clearFiles", "absolutize"} =>
            TableView(OtherOf(last.tb)) = pre[OtherOf(last.tb)]

\* b was merged into a as its third track, and a setFile on b then gave b's
\* index a file that the copy in a does not have
C4_Witness ==
    /\ last.op = "setFile"
    /\ last.tb = "b"
    /\ last.exc = ""
    /\ NTracks("a") = 3
    /\ NTracks("b") = 1
    /\ SessionOf("a", 3) # None
    /\ 1 \in DOMAIN TrackAt("b", 1).indexes
    /\ 1 \in DOMAIN TrackAt("a", 3).indexes
    /\ GetIndex(TrackAt("b", 1), 1).path = Some("c.wav")
    /\ GetIndex(TrackAt("a", 3), 1).path # Some("c.wav")

\* the (track, index number) pairs of a table view
IndexesOf(view) ==
    {<<p, k>> : p \in 1..Len(view.tracks), k \in IndexNumbers} \cap
    UNION {{<<p, k>> : k \in DOMAIN view.tracks[p].indexes} : p \in 1..Len(view.tracks)}

\* C5: whether setFile(track, index, path, length, counter) returns or
\* raises, with start the absolute offset of (track, index): every index whose
\* path, relative or counter the call changed has an absolute offset a with
\* start <= a <= start + length - 1 and relative = a - start (so an index
\* whose absolute offset is unset or outside that range keeps all three).
C5_SetFileRange ==
    last.op = "setFile" =>
        LET old == pre[last.tb]
            new == TableView(last.tb)
        IN  \A pk \in IndexesOf(old) :
                LET x == old.tracks[pk[1]].indexes[pk[2]]
                    y == new.tracks[pk[1]].indexes[pk[2]]
                    start == Val(old.tracks[last.track].indexes[last.index].absolute)
                IN  (x.path # y.path \/ x.relative # y.relative \/ x.counter # y.counter) =>
                        /\ ~IsNone(y.absolute)
                        /\ start <= Val(y.absolute)
                        /\ Val(y.absolute) <= start + last.length - 1
                        /\ y.relative = Some(Val(y.absolute) - start)

\* C6: when clearFiles() returns, every index of every track of the table has
\* path and relative unset and the absolute offset it had before.
C6_ClearFiles ==
    (last.op = "clearFiles" /\ last.exc = "") =>
        LET old == pre[last.tb]
            new == TableView(last.tb)
        IN  \A pk \in IndexesOf(old) :
                LET x == old.tracks[pk[1]].indexes[pk[2]]
                    y == new.tracks[pk[1]].indexes[pk[2]]
                IN  /\ IsNone(y.path)
                    /\ IsNone(y.relative)
                    /\ y.absolute = x.absolute

\* C7: when absolutize() returns, an absolutize() that follows at once
\* returns too and changes no field of any index.
C7_AbsolutizeIdempotent ==
    (last.op = "absolutize" /\ last.exc = "") =>
        LET again == absolutize(last.tb)
        IN  /\ again.exc = ""
            /\ again.ih = indexHeap

\* an absolutize returned that set the absolute offset of an index
C7_Witness ==
    /\ last.op = "absolutize"
    /\ last.exc = ""
    /\ \E pk \in IndexesOf(pre[last.tb]) :
            /\ IsNone(pre[last.tb].tracks[pk[1]].indexes[pk[2]].absolute)
            /\ ~IsNone(TableView(last.tb).tracks[pk[1]].indexes[pk[2]].absolute)

\* the (track, index) pairs from (t, i) on, as getNextTrackIndex gives them
RECURSIVE WalkFrom(_, _, _)
WalkFrom(tb, t, i) ==
    LET next == getNextTrackIndex(tb, t, i)
    IN  IF next = << >> THEN << <<t, i>> >>
        ELSE << <<t, i>> >> \o WalkFrom(tb, next[1], next[2])

\* the pairs absolutize and clearFiles can come to: from the first index of
\* track 1 on
Walk(tb) ==
    IF NTracks(tb) = 0 THEN << >>
    ELSE IF DOMAIN TrackAt(tb, 1).indexes = {} THEN << >>
    ELSE WalkFrom(tb, 1, getFirstIndex(TrackAt(tb, 1)))

\* C8: absolutize never changes an absolute offset that was set; and when its
\* walk from the first index of track 1, through indexes under the first
\* index's counter, comes to an index whose set absolute offset differs from
\* its relative offset, it raises and leaves that index and every index after
\* it in the walk as they were.
C8_AbsolutizeConflict ==
    last.op = "absolutize" =>
        LET old  == pre[last.tb]
            new  == TableView(last.tb)
            w    == Walk(last.tb)
            Old(j) == old.tracks[w[j][1]].indexes[w[j][2]]
            New(j) == new.tracks[w[j][1]].indexes[w[j][2]]
            Conflict(j) == ~IsNone(Old(j).absolute) /\ Old(j).absolute # Old(j).relative
            Reached(j) ==
                /\ ~IsNone(Old(1).counter)
                /\ \A m \in 1..j : Old(m).counter = Old(1).counter
                /\ \A m \in 1..(j - 1) : ~Conflict(m)
        IN  /\ \A pk \in IndexesOf(old) :
                ~IsNone(old.tracks[pk[1]].indexes[pk[2]].absolute) =>
                    new.tracks[pk[1]].indexes[pk[2]].absolute
                        = old.tracks[pk[1]].indexes[pk[2]].absolute
            /\ \A j \in 1..Len(w) :
                (Reached(j) /\ Conflict(j)) =>
                    /\ last.exc # ""
                    /\ \A m \in j..Len(w) : New(m) = Old(m)

\* an absolutize set the absolute offset of an index and then raised
\* ValueError at a later index
C8_Witness ==
    /\ last.op = "absolutize"
    /\ last.exc = "ValueError"
    /\ \E pk \in IndexesOf(pre[last.tb]) :
            /\ IsNone(pre[last.tb].tracks[pk[1]].indexes[pk[2]].absolute)
            /\ ~IsNone(TableView(last.tb).tracks[pk[1]].indexes[pk[2]].absolute)

\* C9: getTrackStart(n) returns the absolute offset of track n's index 1, and
\* raises both when track n has no index 1 and when its index 1 has no
\* absolute offset.
C9_TrackStart ==
    last.op = "getTrackStart" =>
        LET track == TrackAt(last.tb, last.track)
        IN  /\ 1 \notin DOMAIN track.indexes => last.exc # ""
            /\ 1 \in DOMAIN track.indexes =>
                IF IsNone(GetIndex(track, 1).absolute)
                THEN last.exc # ""
                ELSE last.exc = "" /\ last.val = GetIndex(track, 1).absolute

\* C10: getMusicBrainzDiscId returns the id of the table's current
\* MusicBrainz values, whatever calls of setFile, absolutize, merge and
\* clearFiles came between it and the call that cached an id.
C10_DiscIdFresh ==
    (last.op = "getMusicBrainzDiscId" /\ last.exc = "") =>
        LET values == _getMusicBrainzValues(last.tb)
        IN  /\ values.exc = ""
            /\ last.val = Some(discIdOf(values.val))

\* the sum of the decimal digits of i >= 0 (ten digits hold any offset here)
DigitSum(i) ==
    LET digit[k \in 0..9] == (i \div 10^k) % 10
        sum[k \in 0..10] == IF k = 0 THEN 0 ELSE sum[k - 1] + digit[k - 1]
    IN  sum[10]

\* the sum over all tracks of the digit sum of (getTrackStart(track) + 150) div 75
CddbN(tb) ==
    LET s[p \in 0..NTracks(tb)] ==
            IF p = 0 THEN 0
            ELSE s[p - 1] + DigitSum((Val(getTrackStart(tb, p).val) + 150) \div 75)
    IN  s[NTracks(tb)]

\* (leadout div 75) - (getTrackStart(1) div 75), leadout one past the end of
\* the last track
CddbT(tb) ==
    ((Val(getTrackEnd(tb, NTracks(tb)).val) + 1) \div 75)
    - (Val(getTrackStart(tb, 1).val) \div 75)

\* ((n mod m) << 24) | (t << 8) | trackCount
CddbPacked(tb, m) ==
    LongOr(LongOr(ShiftLeft(CddbN(tb) % m, 24), ShiftLeft(CddbT(tb), 8)), Long(NTracks(tb)))

\* a getCDDBValues call on a table with a complete TOC and a track
CddbCall ==
    /\ last.op = "getCDDBValues"
    /\ hasTOC(last.tb)
    /\ NTracks(last.tb) >= 1

\* C11 as stated: on a table with hasTOC() true, getCDDBValues()[0] is
\* ((n mod 256) << 24) | (t << 8) | trackCount.
C11_AsStated ==
    CddbCall => (last.exc = "" /\ last.val[1] = CddbPacked(last.tb, 256))

\* C11: on a table with hasTOC() true and at least one track,
\* getCDDBValues()[0] is ((n mod 255) << 24) | (t << 8) | trackCount, n the
\* sum over all tracks of the digit sum of (getTrackStart(track) + 150) div 75,
\* t = (leadout div 75) - (getTrackStart(1) div 75), trackCount the number of
\* tracks; getCDDBDiscId renders it in hexadecimal, 8 digits for a value
\* below 2^32.
C11_CDDBValue ==
    CddbCall =>
        /\ last.exc = ""
        /\ last.val[1] = CddbPacked(last.tb, 255)
        /\ getCDDBDiscId(last.tb).val = Hex08(CddbPacked(last.tb, 255))
        /\ CddbPacked(last.tb, 255)[1] < 65536 => Len(getCDDBDiscId(last.tb).val) = 8

\* a disc whose checksum n is 255 or more, where n mod 255 and n mod 256 differ
C11_Witness ==
    /\ CddbCall
    /\ last.exc = ""
    /\ CddbN(last.tb) >= 255
    /\ CddbN(last.tb) % 255 # CddbN(last.tb) % 256
    /\ hasDataTracks(last.tb)

\* the audio tracks of a table, by position
AudioPositions(tb) == {p \in 1..NTracks(tb) : TrackAt(tb, p).audio}

\* E: one past the end of the last track
EndPlusOne(tb) == Val(getTrackEnd(tb, NTracks(tb)).val) + 1

\* the larger of a and b
Max(a, b) == IF a >= b THEN a ELSE b

\* the sum over the audio tracks up to position p of getTrackStart(track)
SumOfStarts(tb) ==
    LET s[p \in 0..NTracks(tb)] ==
            IF p = 0 THEN Long(0)
            ELSE IF p \in AudioPositions(tb)
                 THEN LongAdd(s[p - 1], Long(Val(getTrackStart(tb, p).val)))
                 ELSE s[p - 1]
    IN  s[NTracks(tb)]

\* the sum over the audio tracks of max(getTrackStart(track), 1) * track.number
SumOfProducts(tb) ==
    LET s[p \in 0..NTracks(tb)] ==
            IF p = 0 THEN Long(0)
            ELSE IF p \in AudioPositions(tb)
                 THEN LongAdd(s[p - 1], LongMul(Max(Val(getTrackStart(tb, p).val), 1),
                                                TrackAt(tb, p).number))
                 ELSE s[p - 1]
    IN  s[NTracks(tb)]

\* x mod 2^32
Mod32(x) == <<x[1] % 65536, x[2]>>

ExpectedId1(tb) == LongAdd(SumOfStarts(tb), Long(EndPlusOne(tb)))

ExpectedId2(tb) ==
    LongAdd(SumOfProducts(tb), LongMul(EndPlusOne(tb), Cardinality(AudioPositions(tb)) + 1))

\* an accuraterip_ids call on a table with a complete TOC and a track
AccurateripCall ==
    /\ last.op = "accuraterip_ids"
    /\ hasTOC(last.tb)
    /\ NTracks(last.tb) >= 1

\* C12: on a table with hasTOC() true, accuraterip_ids() returns, each as 8
\* hexadecimal digits, discId1 = (sum over audio tracks of getTrackStart + E)
\* mod 2^32 and discId2 = (sum over audio tracks of max(getTrackStart, 1) *
\* track.number + E * (audio tracks + 1)) mod 2^32, E = getTrackEnd(last
\* track) + 1; a single audio track starting at 0 with E = 1000 gives 1000
\* (000003e8) and 2001 (000007d1).
C12_AccurateRip ==
    AccurateripCall =>
        /\ last.exc = ""
        /\ last.val = <<Hex08(Mod32(ExpectedId1(last.tb))), Hex08(Mod32(ExpectedId2(last.tb)))>>
        /\ (/\ NTracks(last.tb) = 1
            /\ TrackAt(last.tb, 1).audio
            /\ getTrackStart(last.tb, 1).val = Some(0)
            /\ EndPlusOne(last.tb) = 1000)
           => last.val = << <<"0", "0", "0", "0", "0", "3", "e", "8">>,
                            <<"0", "0", "0", "0", "0", "7", "d", "1">> >>

\* the ids were read of a disc whose second sum goes beyond 32 bits, and
\* whose first track starts at 0
C12_Witness ==
    /\ AccurateripCall
    /\ last.exc = ""
    /\ ExpectedId2(last.tb)[1] >= 65536
    /\ getTrackStart(last.tb, 1).val = Some(0)
    /\ TrackAt(last.tb, 1).audio

\* the table of one audio track whose only index is index 1 at absolute
\* offset 0, and leadout 1000
SingleTrackTable(tb) ==
    /\ NTracks(tb) = 1
    /\ TrackAt(tb, 1).audio
    /\ DOMAIN TrackAt(tb, 1).indexes = {1}
    /\ GetIndex(TrackAt(tb, 1), 1).absolute = Some(0)
    /\ table[tb].leadout = Some(1000)

\* where in the lines of a cue sheet the lines of a kind are
LinesOf(lines, kind) == {i \in 1..Len(lines) : lines[i][1] = kind}

\* one FILE line, one TRACK 01 AUDIO line, one INDEX 01 00:00:00 line, the
\* FILE line before the TRACK line
OneFileTrackIndex(lines) ==
    /\ Cardinality(LinesOf(lines, "FILE")) = 1
    /\ Cardinality(LinesOf(lines, "TRACK")) = 1
    /\ \A i \in LinesOf(lines, "TRACK") : lines[i] = <<"TRACK", 1, "AUDIO">>
    /\ Cardinality(LinesOf(lines, "INDEX")) = 1
    /\ \A i \in LinesOf(lines, "INDEX") : lines[i][2] = 1 /\ lines[i][3] = <<0, 0, 0>>
    /\ \A i \in LinesOf(lines, "FILE") : \A j \in LinesOf(lines, "TRACK") : i < j

AscendingPairs(tb) ==
    LET ofTrack(p) == LET ks == SortedKeys(TrackAt(tb, p).indexes)
                      IN  [j \in 1..Len(ks) |-> <<p, ks[j]>>]
        upTo[p \in 0..NTracks(tb)] == IF p = 0 THEN << >> ELSE upTo[p - 1] \o ofTrack(p)
    IN  upTo[NTracks(tb)]

\* C14: from the first index of track 1, getNextTrackIndex visits every
\* (track, index) pair of the table exactly once, index numbers ascending
\* within a track and tracks ascending; and it raises IndexError when, and
\* only when, called on the last index of the last track.
C14_WalkOrder ==
    \A tb \in TableNames :
        (NTracks(tb) >= 1 /\ DOMAIN TrackAt(tb, 1).indexes # {}) =>
            LET pairs == AscendingPairs(tb)
            IN  /\ Walk(tb) = pairs
                /\ \A j \in 1..Len(pairs) :
                      (getNextTrackIndex(tb, pairs[j][1], pairs[j][2]) = << >>) <=> (j = Len(pairs))

\* what getTrackStart(number) gave on a table that held view
getTrackStartOf(view, number) ==
    LET track == view.tracks[number]
    IN  IF 1 \notin DOMAIN track.indexes THEN Raise("KeyError")
        ELSE Return(track.indexes[1].absolute)

\* what getTrackEnd(number) gave on a table that held view
getTrackEndOf(view, number) ==
    IF IsNone(view.leadout) THEN Raise("TypeError")
    ELSE IF number < Len(view.tracks) THEN
        LET thisTrack == view.tracks[number]
            nextTrack == view.tracks[number + 1]
        IN  IF 1 \notin DOMAIN nextTrack.indexes THEN Raise("KeyError")
            ELSE IF IsNone(nextTrack.indexes[1].absolute) THEN Raise("TypeError")
            ELSE LET end == Val(nextTrack.indexes[1].absolute) - 1
                 IN  IF PyGreater(nextTrack.session, thisTrack.session)
                     THEN Return(Some(end - _getSessionGap(Val(nextTrack.session))))
                     ELSE Return(Some(end))
    ELSE Return(Some(Val(view.leadout) - 1))

\* what getTrackLength(number) gave on a table that held view
getTrackLengthOf(view, number) ==
    LET end   == getTrackEndOf(view, number)
        start == getTrackStartOf(view, number)
    IN  IF end.exc # "" THEN end
        ELSE IF start.exc # "" THEN start
        ELSE IF IsNone(start.val) THEN Raise("TypeError")
        ELSE Return(Some(Val(end.val) - Val(start.val) + 1))

\* the lookups on a view of the table are the lookups on the table
LookupsOfView ==
    \A tb \in TableNames : \A n \in 1..NTracks(tb) :
        /\ getTrackStartOf(TableView(tb), n) = getTrackStart(tb, n)
        /\ getTrackEndOf(TableView(tb), n) = getTrackEnd(tb, n)
        /\ getTrackLengthOf(TableView(tb), n) = getTrackLength(tb, n)

\* a merge(other, session) was called with other's track 1 having index 1 at
\* absolute 0, and session later than the session of the table's last track
MergeAtBorder ==
    /\ last.op = "merge"
    /\ LET old == pre[last.tb]
           o   == pre[last.other]
       IN  /\ Len(old.tracks) >= 1
           /\ Len(o.tracks) >= 1
           /\ 1 \in DOMAIN o.tracks[1].indexes
           /\ o.tracks[1].indexes[1].absolute = Some(0)
           /\ PyGreater(Some(last.session), old.tracks[Len(old.tracks)].session)

\* C15: after such a merge, getTrackStart(n), getTrackEnd(n) and
\* getTrackLength(n) of every track n the table had before give what they
\* gave before the merge; the end of the last of them stays the pre-merge
\* leadout - 1.
C15_ExtentsKept ==
    MergeAtBorder =>
        LET old == pre[last.tb]
            N   == Len(old.tracks)
        IN  /\ \A n \in 1..N :
                  /\ getTrackStart(last.tb, n) = getTrackStartOf(old, n)
                  /\ getTrackEnd(last.tb, n) = getTrackEndOf(old, n)
                  /\ getTrackLength(last.tb, n) = getTrackLengthOf(old, n)
            /\ ~IsNone(old.leadout) =>
                  getTrackEnd(last.tb, N) = Return(Some(Val(old.leadout) - 1))

\* a merge as session 3 returned, onto a table whose last track was of
\* session 2 and now ends at a session border
C15_Witness ==
    /\ MergeAtBorder
    /\ last.exc = ""
    /\ last.session = 3
    /\ pre[last.tb].tracks[Len(pre[last.tb].tracks)].session = Some(2)
    /\ NTracks(last.tb) > Len(pre[last.tb].tracks)
    /\ getTrackLength(last.tb, Len(pre[last.tb].tracks)).exc = ""

===========================================================================
